---- MODULE Spec2Model ----
(***************************************************************************)
(* Model of src/src/async-stores/index.ts (asyncWritable, asyncDerived,    *)
(* asyncReadable).                                                         *)
(*                                                                         *)
(* The closure built by asyncWritable holds loadState, ready,              *)
(* currentLoadPromise and latestLoadAndSet, and defines tryLoadValue,      *)
(* loadThenSet and the StartStopNotifier onFirstSubscribtion.  The body of *)
(* asyncWritable has no return statement, so its caller receives           *)
(* undefined.  The notifier is invoked by the store collaborator each time *)
(* the number of subscribers goes from zero to one; user code (the mapping *)
(* function, the parents' loads) settles asynchronously and is the         *)
(* environment of the model.                                               *)
(***************************************************************************)
EXTENDS Naturals, Sequences, FiniteSets

\* ---------------------------------------------------------------- bounds
MaxLoads == 2        \* invocations of onFirstSubscribtion
MaxSubscribers == 2  \* subscribers attached at the same time

\* An optional JavaScript value is a sequence of at most one element:
\* Undefined is the absent one, Some(x) the present one.
Undefined == <<>>
Some(x) == <<x>>
Results == {1, 2}
Initials == {Undefined, Some(0)}
ParentValues == {0, 1}
ErrorNames == {"AbortError", "Error"}
States == {"LOADING", "RELOADING", "LOADED", "WRITING", "ERROR"}

VARIABLES
  options,            \* [trackState, initial, write]: what asyncWritable was given
  loadState,          \* content of the state store, Undefined without trackState
  ready,              \* flag: the first subscription's parents have loaded
  currentLoadPromise, \* declared at line 79
  value,              \* content of the cell whose setter the notifier receives
  parent,             \* present value of the parent store
  subscribers,        \* subscribers attached to the cell
  loads,              \* one record per invocation of onFirstSubscribtion
  loadAllCalls,       \* invocations of the dependency loader
  writeCalls,         \* invocations of mappingWriteFunction
  logged,             \* errors handed to logError
  lastCall,           \* the consumer's latest call on asyncWritable's result
  callee,             \* what the call of asyncWritable inside asyncDerived evaluated to
  derived             \* what asyncDerived or asyncReadable returned or threw

vars == <<options, loadState, ready, currentLoadPromise, value, parent,
          subscribers, loads, loadAllCalls, writeCalls, logged,
          lastCall, callee, derived>>

storeVars == <<options, loadState, ready, currentLoadPromise, value, parent,
               subscribers, loads, loadAllCalls, writeCalls, logged,
               lastCall>>

\* ------------------------------------------------------ state classifier
\* mutant: a write counts as pending
getLoadStateWritingPending(stateString) ==
  [isLoading   |-> stateString = "LOADING",
   isReloading |-> stateString = "RELOADING",
   isLoaded    |-> stateString = "LOADED",
   isWriting   |-> stateString = "WRITING",
   isError     |-> stateString = "ERROR",
   isPending   |-> stateString = "LOADING" \/ stateString = "WRITING",
   isSettled   |-> stateString = "LOADED" \/ stateString = "ERROR"]

getLoadState(stateString) ==
  [isLoading   |-> stateString = "LOADING",
   isReloading |-> stateString = "RELOADING",
   isLoaded    |-> stateString = "LOADED",
   isWriting   |-> stateString = "WRITING",
   isError     |-> stateString = "ERROR",
   isPending   |-> stateString = "LOADING" \/ stateString = "RELOADING",
   isSettled   |-> stateString = "LOADED" \/ stateString = "ERROR"]

\* loadState?.set(getLoadState(state)): nothing without state tracking
setState(ls, state) ==
  IF ls = Undefined THEN Undefined ELSE Some(getLoadState(state))

\* ------------------------------------------------------------ construction
\* what the closure holds once the body of asyncWritable has run
asyncWritable(opts) ==
  [loadState |-> IF opts.trackState THEN Some(getLoadState("LOADING"))
                 ELSE Undefined,
   ready |-> FALSE,
   currentLoadPromise |-> Undefined]

\* the value the call of asyncWritable evaluates to: the body returns nothing
asyncWritableResult == Undefined

OptionSets == [trackState : BOOLEAN, initial : Initials, write : BOOLEAN]

InitStore ==
  /\ options \in OptionSets
  /\ loadState = asyncWritable(options).loadState
  /\ ready = asyncWritable(options).ready
  /\ currentLoadPromise = asyncWritable(options).currentLoadPromise
  /\ value = options.initial
  /\ parent \in ParentValues
  /\ subscribers = 0
  /\ loads = <<>>
  /\ loadAllCalls = 0
  /\ writeCalls = 0
  /\ logged = <<>>
  /\ lastCall = Undefined

Init ==
  /\ InitStore
  /\ callee = Undefined
  /\ derived = Undefined

\* ------------------------------------------------------------- the loads
\* One record per invocation of onFirstSubscribtion:
\*   pc       where the inner async function stands
\*   inner    state of the promise of the inner async function
\*   values   what loadAll(stores) resolved to, once it has
\*   invoked  times mappingLoadFunction was invoked for this load
\*   mapErr   the name of the error the mapping function failed with, or ""
\*   promise  state of the promise tryLoadValue returned
\*   result   what that promise was fulfilled with
\*   thrown   what that promise was rejected with, or ""
NewLoad ==
  [pc |-> "awaitParents", inner |-> "pending", values |-> Undefined,
   invoked |-> 0, mapErr |-> "",
   promise |-> "pending", result |-> Undefined, thrown |-> ""]

LoadIds == 1..Len(loads)

\* mutants of the catch block: without the test of the error's name, and
\* without the re-throw
tryLoadValueCatchAnyError(e, ls, lg) ==
  [loadState |-> setState(ls, "ERROR"), logged |-> Append(lg, e), thrown |-> e]

tryLoadValueCatchSwallows(e, ls, lg) ==
  IF e # "AbortError"
  THEN [loadState |-> setState(ls, "ERROR"), logged |-> Append(lg, e),
        thrown |-> ""]
  ELSE [loadState |-> ls, logged |-> lg, thrown |-> ""]

\* the catch block of tryLoadValue, given the failure e, the state store and
\* the log: what it leaves in the state store and the log, and what it throws
tryLoadValueCatch(e, ls, lg) ==
  IF e # "AbortError"
  THEN [loadState |-> setState(ls, "ERROR"), logged |-> Append(lg, e),
        thrown |-> e]
  ELSE [loadState |-> ls, logged |-> lg, thrown |-> e]

\* loadAll(stores), once every parent has loaded: the tuple of the parents'
\* present values
loadAll(p) == Some(p)

\* mutant: tryLoadValue is called at once, without awaiting loadAll(stores)
onFirstSubscribtionNoAwait ==
  /\ Len(loads) < MaxLoads
  /\ loads' = Append(loads, [NewLoad EXCEPT !.pc = "awaitMap",
                                            !.inner = "fulfilled",
                                            !.invoked = 1])
  /\ loadAllCalls' = loadAllCalls + 2
  /\ UNCHANGED <<loadState, ready, currentLoadPromise, value,
                 writeCalls, logged>>

\* onFirstSubscribtion(set): the inner async function calls loadAll(stores)
\* and suspends, then the notifier calls loadAll() and suspends; what that
\* second call resolves to is not used
onFirstSubscribtion ==
  /\ Len(loads) < MaxLoads
  /\ loads' = Append(loads, NewLoad)
  /\ loadAllCalls' = loadAllCalls + 2
  /\ UNCHANGED <<loadState, ready, currentLoadPromise, value,
                 writeCalls, logged>>

\* the store collaborator: the notifier runs for the first subscriber only
Subscribe ==
  /\ subscribers < MaxSubscribers
  /\ subscribers' = subscribers + 1
  /\ IF subscribers = 0
     THEN onFirstSubscribtion
     ELSE UNCHANGED <<loadState, ready, currentLoadPromise, value, loads,
                      loadAllCalls, writeCalls, logged>>
  /\ UNCHANGED <<options, parent, lastCall, callee, derived>>

Unsubscribe ==
  /\ subscribers > 0
  /\ subscribers' = subscribers - 1
  /\ UNCHANGED <<options, loadState, ready, currentLoadPromise, value, parent,
                 loads, loadAllCalls, writeCalls, logged, lastCall,
                 callee, derived>>

\* a parent store takes another value
ParentChange(v) ==
  /\ v # parent
  /\ parent' = v
  /\ UNCHANGED <<options, loadState, ready, currentLoadPromise, value,
                 subscribers, loads, loadAllCalls, writeCalls,
                 logged, lastCall, callee, derived>>

\* mutant: tryLoadValue(values) is called twice
LoadAllResolveTwice(i) ==
  /\ loads[i].pc = "awaitParents"
  /\ ready' = TRUE
  /\ loads' = [loads EXCEPT ![i].pc = "awaitMap", ![i].inner = "fulfilled",
                            ![i].values = loadAll(parent),
                            ![i].invoked = @ + 2]
  /\ UNCHANGED <<options, loadState, currentLoadPromise, value, parent,
                 subscribers, loadAllCalls, writeCalls, logged, lastCall,
                 callee, derived>>

\* mutant: the flag is not set
LoadAllResolveNoReady(i) ==
  /\ loads[i].pc = "awaitParents"
  /\ loads' = [loads EXCEPT ![i].pc = "awaitMap", ![i].inner = "fulfilled",
                            ![i].values = loadAll(parent),
                            ![i].invoked = @ + 1]
  /\ UNCHANGED <<options, loadState, ready, currentLoadPromise, value, parent,
                 subscribers, loadAllCalls, writeCalls, logged, lastCall,
                 callee, derived>>

\* loadAll(stores) resolves: ready = true; tryLoadValue(values) runs up to
\* its await of mappingLoadFunction(values), and the inner async function,
\* which does not await it, ends
LoadAllResolve(i) ==
  /\ loads[i].pc = "awaitParents"
  /\ ready' = TRUE
  /\ loads' = [loads EXCEPT ![i].pc = "awaitMap", ![i].inner = "fulfilled",
                            ![i].values = loadAll(parent),
                            ![i].invoked = @ + 1]
  /\ UNCHANGED <<options, loadState, currentLoadPromise, value, parent,
                 subscribers, loadAllCalls, writeCalls, logged, lastCall,
                 callee, derived>>

\* mutant: tryLoadValue is called although loadAll(stores) failed (as from a
\* finally block)
LoadAllRejectStillInvokes(i) ==
  /\ loads[i].pc = "awaitParents"
  /\ loads' = [loads EXCEPT ![i].pc = "parentsFailed", ![i].inner = "rejected",
                            ![i].invoked = @ + 1]
  /\ UNCHANGED <<options, loadState, ready, currentLoadPromise, value, parent,
                 subscribers, loadAllCalls, writeCalls, logged,
                 lastCall, callee, derived>>

\* loadAll(stores) rejects (the load of a parent failed): the inner async
\* function ends there, its promise rejected
LoadAllReject(i) ==
  /\ loads[i].pc = "awaitParents"
  /\ loads' = [loads EXCEPT ![i].pc = "parentsFailed", ![i].inner = "rejected"]
  /\ UNCHANGED <<options, loadState, ready, currentLoadPromise, value, parent,
                 subscribers, loadAllCalls, writeCalls, logged,
                 lastCall, callee, derived>>

\* the mapping function resolves to v: tryLoadValue returns it
MapResolve(i, v) ==
  /\ loads[i].pc = "awaitMap"
  /\ loads' = [loads EXCEPT ![i].pc = "settled", ![i].promise = "fulfilled",
                            ![i].result = Some(v)]
  /\ UNCHANGED <<options, loadState, ready, currentLoadPromise, value, parent,
                 subscribers, loadAllCalls, writeCalls, logged,
                 lastCall, callee, derived>>

\* the mapping function fails with e: the catch block of tryLoadValue
MapReject(i, e) ==
  /\ loads[i].pc = "awaitMap"
  /\ LET c == tryLoadValueCatch(e, loadState, logged) IN
       /\ loadState' = c.loadState
       /\ logged' = c.logged
       /\ loads' = [loads EXCEPT ![i].pc = "settled", ![i].mapErr = e,
                                 ![i].promise = "rejected",
                                 ![i].thrown = c.thrown]
  /\ UNCHANGED <<options, ready, currentLoadPromise, value, parent,
                 subscribers, loadAllCalls, writeCalls, lastCall,
                 callee, derived>>

\* a consumer calls op on what asyncWritable returned: reading a property of
\* undefined throws a TypeError before anything of the closure runs
Invoke(result, op) ==
  IF result = Undefined THEN "TypeError" ELSE "called"

Call(op, arg) ==
  /\ lastCall' = Some([op |-> op, arg |-> arg,
                       outcome |-> Invoke(asyncWritableResult, op)])
  /\ lastCall' # lastCall
  /\ UNCHANGED <<options, loadState, ready, currentLoadPromise, value, parent,
                 subscribers, loads, loadAllCalls, writeCalls,
                 logged, callee, derived>>

\* -------------------------------------------- the read-only constructors
\* Every property name of the WritableLoadable type.
CapNames == {"store", "subscribe", "load", "reload", "state", "reset",
             "set", "update"}

\* mutant: the whole of the callee's object is passed on
asyncDerivedPassesAll(w) ==
  IF w = Undefined
  THEN [threw |-> "TypeError", keys |-> {}]
  ELSE [threw |-> "", keys |-> {"store", "subscribe", "load"} \cup w[1]]

\* asyncDerived, given what its call of asyncWritable evaluated to (Undefined,
\* or Some(the set of properties that hold a value)): destructuring undefined
\* throws; otherwise the object literal has store, subscribe and load, and
\* reload, state and reset where the callee's are truthy
asyncDerived(w) ==
  IF w = Undefined
  THEN [threw |-> "TypeError", keys |-> {}]
  ELSE [threw |-> "",
        keys |-> {"store", "subscribe", "load"}
                   \cup (w[1] \cap {"reload", "state", "reset"})]

\* asyncReadable: asyncDerived over no stores, with initial put in the options
asyncReadable(w) == asyncDerived(w)

CallAsyncDerived ==
  /\ derived = Undefined
  /\ derived' = Some([ctor |-> "asyncDerived", out |-> asyncDerived(callee)])
  /\ UNCHANGED <<storeVars, callee>>

CallAsyncReadable ==
  /\ derived = Undefined
  /\ derived' = Some([ctor |-> "asyncReadable", out |-> asyncReadable(callee)])
  /\ UNCHANGED <<storeVars, callee>>

\* The constructors as functions of what asyncWritable hands them: undefined,
\* as its body in this source does, or an object holding any of the
\* properties of its declared return type.
InitCaps ==
  /\ InitStore
  /\ ~options.write
  /\ callee \in {Undefined} \cup {Some(c) : c \in SUBSET CapNames}
  /\ derived = Undefined

NextCaps == CallAsyncDerived \/ CallAsyncReadable

SpecCaps == InitCaps /\ [][NextCaps]_vars

Next ==
  \/ Subscribe
  \/ Unsubscribe
  \/ \E v \in ParentValues : ParentChange(v)
  \/ \E i \in LoadIds : LoadAllResolve(i)
  \/ \E i \in LoadIds : LoadAllReject(i)
  \/ \E i \in LoadIds, v \in Results : MapResolve(i, v)
  \/ \E i \in LoadIds, e \in ErrorNames : MapReject(i, e)
  \/ \E op \in {"load", "reload"} : Call(op, Undefined)
  \/ \E op \in {"set", "update"}, v \in Results : Call(op, Some(v))

Spec == Init /\ [][Next]_vars

\* Continuations run: a load that can take a step eventually takes one.
LoadSteps ==
  \/ \E i \in LoadIds : LoadAllResolve(i)
  \/ \E i \in LoadIds : LoadAllReject(i)
  \/ \E i \in LoadIds, v \in Results : MapResolve(i, v)
  \/ \E i \in LoadIds, e \in ErrorNames : MapReject(i, e)

SpecFair == Spec /\ WF_vars(LoadSteps)

\* ------------------------------------------------------------------ claims
Tracked == loadState # Undefined
IsState(ls, tag) == ls = Some(getLoadState(tag))

\* load i's mapping function settles in this step
Settles(i) == loads[i].pc = "awaitMap" /\ loads'[i].pc = "settled"
IsCall(ops) == lastCall # Undefined /\ lastCall[1].op \in ops

\* C1: a load that a newer load has superseded never writes the container's
\* value or state, whenever its mapping function settles.
StaleLoadNeverWrites ==
  [][\A i \in LoadIds :
       (Settles(i) /\ i < Len(loads))
         => (value' = value /\ loadState' = loadState)]_vars

\* C2: a load() call made while a load is in flight is handed that load's
\* promise (currentLoadPromise), so that the mapping function runs once and
\* every caller receives the same value.
LoadCallsShareCurrentLoad ==
  IsCall({"load"})
    => (lastCall[1].outcome = "called" /\ currentLoadPromise # Undefined)

\* C3: when the mapping function fails with an error named AbortError, the
\* load state is left as it was and the logging hook is not invoked.
CancellationSilence ==
  [][\A i \in LoadIds :
       (Settles(i) /\ loads'[i].mapErr = "AbortError")
         => (loadState' = loadState /\ logged' = logged)]_vars

C3Witness ==
  \E i \in LoadIds :
    /\ loads[i].mapErr = "AbortError"
    /\ IsState(loadState, "LOADING")
    /\ logged = <<>>

ErrorHoldsLastGoodValue ==
  IsState(loadState, "ERROR")
    => IF \E i \in LoadIds : loads[i].promise = "fulfilled"
       THEN \E i \in LoadIds :
              loads[i].promise = "fulfilled" /\ value = loads[i].result
       ELSE value = options.initial

OptimisticUpdate ==
  (IsCall({"set", "update"}) /\ options.write /\ writeCalls = 0)
    => /\ value = lastCall[1].arg
       /\ (Tracked => IsState(loadState, "WRITING"))

\* C8: set(v) on a container with a write function hands v to the write
\* function, and the value then is v or what the write function resolved to.
WriteConfirmation ==
  (IsCall({"set", "update"}) /\ options.write)
    => /\ lastCall[1].outcome = "called"
       /\ writeCalls > 0
       /\ value \in {lastCall[1].arg} \cup {Some(r) : r \in Results}

\* C10: what asyncDerived and asyncReadable return has neither set nor update.
NoSetNoUpdate ==
  derived # Undefined
    => derived[1].out.keys \cap {"set", "update"} = {}

C10Witness ==
  /\ derived # Undefined
  /\ derived[1].ctor = "asyncReadable"
  /\ derived[1].out.threw = ""
  /\ callee # Undefined
  /\ {"set", "update", "reload"} \subseteq callee[1]

\* the load the latest run of the notifier started
Latest == loads[Len(loads)]
InitialLoadDone == \E i \in LoadIds : loads[i].pc = "settled"
Flags == {"isLoading", "isReloading", "isLoaded", "isWriting", "isError"}
WellFormed(f) ==
  /\ Cardinality({n \in Flags : f[n]}) = 1
  /\ f.isPending = (f.isLoading \/ f.isReloading)
  /\ f.isSettled = (f.isLoaded \/ f.isError)

\* C12: once the initial load is done and while a subscriber is attached, a
\* change of a parent's value leads to an invocation of the mapping function
\* with the new value (or to the parent changing again first).
DependencyRetrigger ==
  \A v \in ParentValues :
    (InitialLoadDone /\ subscribers > 0 /\ parent = v)
      ~> (parent # v \/ \E i \in LoadIds : loads[i].values = loadAll(v))

\* C13: once the only load of a leaf container has resolved, the container
\* holds the value its load function resolved to.
LeafHoldsLoadedValue ==
  (Len(loads) = 1 /\ loads[1].promise = "fulfilled")
    => value = loads[1].result

\* C14: a state-tracking container whose current load has succeeded is in
\* neither LOADING nor RELOADING.
LoadedAfterSuccess ==
  (Tracked /\ loads # <<>> /\ Latest.promise = "fulfilled")
    => ~loadState[1].isPending

\* C15: in a settled state, a change of a parent's value (after the initial
\* load, with a subscriber attached) or a reload() call makes the tracked
\* state RELOADING.
SettledToReloading ==
  [][(/\ Tracked
      /\ loadState[1].isSettled
      /\ \/ (ready /\ subscribers > 0 /\ parent' # parent)
         \/ (lastCall' # lastCall /\ lastCall'[1].op = "reload"))
       => IsState(loadState', "RELOADING")]_vars

\* C16: the flags in the state store, and the flags the classifier yields
\* for each of the five tags, have exactly one of isLoading, isReloading,
\* isLoaded, isWriting, isError true, isPending = isLoading or isReloading,
\* and isSettled = isLoaded or isError.
FlagsWellFormed ==
  /\ Tracked => WellFormed(loadState[1])
  /\ \A tag \in States : WellFormed(getLoadState(tag))

C16Witness ==
  /\ Tracked
  /\ loadState[1].isError
  /\ loadState[1].isSettled
  /\ ~loadState[1].isPending
  /\ InitialLoadDone

\* C17: a set or update called while a load's mapping function is pending
\* makes its argument the value, and no load that settles afterwards, before
\* the write function has resolved, changes the value.
WriteBeatsReload ==
  [][/\ (/\ lastCall' # lastCall
         /\ lastCall'[1].op \in {"set", "update"}
         /\ options.write
         /\ \E i \in LoadIds : loads[i].pc = "awaitMap")
          => value' = lastCall'[1].arg
     /\ \A i \in LoadIds :
          (Settles(i) /\ IsCall({"set", "update"}) /\ options.write)
            => value' = value]_vars

ReadyFlag ==
  /\ []((loads = <<>>) => ~ready)
  /\ [](ready => \E i \in LoadIds : loads[i].values # Undefined)
  /\ []((\E i \in LoadIds : loads[i].invoked > 0) => ready)
  /\ [][ready => ready']_vars

C20Witness ==
  /\ ready
  /\ subscribers = 0
  /\ \E i \in LoadIds : loads[i].pc = "parentsFailed"

====
